---- MODULE Spec2Model ----
(***************************************************************************)
(* A state-machine model of server.js: the six password-protected routes  *)
(* on /api/content and /api/projects, the multer/Cloudinary upload step   *)
(* in front of them, the MongoDB collections behind them and the remote   *)
(* media store.  Every await of a handler is a step boundary; what a      *)
(* request did is kept with it (fx) until its slot takes the next one.     *)
(*                                                                         *)
(* The database is taken to be reachable: a database call fails only for  *)
(* a reason the request and the stored data decide (schema validation, a  *)
(* malformed id, a document that is gone).  The remote store may fail on  *)
(* any call.                                                               *)
(***************************************************************************)
EXTENDS Integers, Sequences, FiniteSets, TLC

VARIABLES adminSecret, store, nextId, uploads, cloud, now, req

vars == <<adminSecret, store, nextId, uploads, cloud, now, req>>

(* ---------------------------------------------------------------- bounds *)

\* Records ever created (ids 1..MaxRecords).
MaxRecords == 1
\* Objects ever uploaded to the remote store (public ids 1..MaxUploads).
MaxUploads == 2
\* Largest reading of the clock.
MaxClock == 1

\* The request slots: the requests that are in flight together.
Reqs == {"r1"}

(* ---------------------------------------------------------------- values *)

\* The admin secret of a deployment that sets ADMIN_PASSWORD.
Secret == "s3cret"
\* JavaScript's undefined, for a header or form field that was not sent.
Undef == "<undefined>"
\* A value of req.file / a findById result that is absent.
None == [none |-> TRUE]
\* An id that is not a well-formed ObjectId.
BadId == 0

Colls == {"content", "project"}
Methods == {"POST", "PUT", "DELETE"}

\* The schema's text paths (all required).
TextFields(c) ==
    IF c = "content" THEN {"title", "description", "category"}
    ELSE {"projectTitle", "studentName", "rollNo", "department", "year", "description"}

\* What a PUT handler destructures from req.body.
UpdateFields(c) ==
    IF c = "content" THEN {"title", "description"}
    ELSE {"projectTitle", "studentName", "rollNo", "department", "year", "description"}

\* Form fields of a multipart request: the text paths, and category (which
\* storage.params reads on every upload).
BodyFields(c) == TextFields(c) \cup {"category"}

\* MIME types, type/subtype.
AllowedTypes ==
    { [type |-> "image", subtype |-> "jpeg"], [type |-> "image", subtype |-> "png"], [type |-> "image", subtype |-> "gif"],
      [type |-> "video", subtype |-> "mp4"], [type |-> "video", subtype |-> "webm"],
      [type |-> "application", subtype |-> "pdf"],
      [type |-> "application", subtype |-> "msword"],
      [type |-> "application", subtype |-> "vnd.openxmlformats-officedocument.wordprocessingml.document"] }

Truthy(v) == v \notin {Undef, ""}

(* ---------------------------------------------------------------- inputs *)

Headers == {Undef, Secret, "guess"}
Secrets == {Undef, Secret}
IdParams == (1..MaxRecords) \cup {BadId}

\* File parts a client sends: one of each resource kind, one the filter refuses.
SentTypes ==
    { [type |-> "image", subtype |-> "png"], [type |-> "video", subtype |-> "mp4"], [type |-> "application", subtype |-> "pdf"],
      [type |-> "application", subtype |-> "zip"] }

Categories == {Undef, "curriculum", "hobbies", "misc"}

\* The fields a request may single out: the first and the last a PUT handler
\* destructures.
Pivots(c) ==
    IF c = "content" THEN {"title", "description"} ELSE {"projectTitle", "description"}

\* Text sent for the fields F: every field set, no field set, or one pivot
\* field g singled out: sent alone ("b", or empty), or sent empty among the
\* others.
TextBodies(F, P) ==
    { [f \in F |-> v] : v \in {Undef, "a"} }
    \cup { [f \in F |-> IF f = g THEN v ELSE Undef] : g \in P, v \in {"", "b"} }
    \cup { [f \in F |-> IF f = g THEN "" ELSE "a"] : g \in P }

\* The form of a request is drawn field by field, where the code first reads
\* it: category when storage.params runs, the text fields when the handler
\* uses what it destructured.  A field no step reads stays Undef.
NoBody(c) == [f \in BodyFields(c) |-> Undef]

CategoriesOf(c) == IF c = "content" THEN Categories ELSE {Undef, "curriculum"}

\* body with the text fields as sent.
WithText(c, body, t) == [f \in BodyFields(c) |-> IF f = "category" THEN body[f] ELSE t[f]]

(* ------------------------------------------------------- pure functions *)

\* fileType.startsWith(prefix + '/')
StartsWith(mimetype, prefix) == mimetype.type = prefix

\* url.includes(segment), a URL being its sequence of path segments.
Includes(url, segment) == \E i \in 1..Len(url) : url[i] = segment

\* req.baseUrl: the path a router was mounted on.  Every route is registered
\* on app itself (app.post, app.put, app.delete), so Express leaves it ''.
BaseUrl(c) == << >>

\* storage.params: the destination folder and the resource type of an upload.
StorageParams(baseUrl, body, mimetype) ==
    [ folder |->
        IF Includes(baseUrl, "projects") THEN "portfolio/projects"
        ELSE IF body["category"] = "curriculum" THEN "portfolio/curriculum"
        ELSE IF body["category"] = "hobbies" THEN "portfolio/hobbies"
        ELSE "portfolio",
      resource_type |->
        IF StartsWith(mimetype, "video") THEN "video"
        ELSE IF StartsWith(mimetype, "image") THEN "image"
        ELSE "raw",
      transformation |-> StartsWith(mimetype, "image") ]

\* A filter that lets every file through.
FileFilter_All(mimetype) == TRUE

\* fileFilter: TRUE when the file is accepted.
FileFilter(mimetype) == mimetype \in AllowedTypes

\* A gate that only asks for the header to be there.
Authenticate_Present(password) == password # Undef

\* authenticate: TRUE when next() is called.
Authenticate(password) == password = adminSecret

\* getResourceType
GetResourceType(fileType) ==
    IF StartsWith(fileType, "video") THEN "video"
    ELSE IF StartsWith(fileType, "image") THEN "image"
    ELSE "raw"

\* A helper without the try/catch: the error of the call reaches the handler.
DeleteFromCloudinary_Rethrows(publicId, resourceType, fails) ==
    [ cloud |->
        IF ~fails /\ publicId \in cloud
           /\ uploads[publicId].resource_type = resourceType
        THEN cloud \ {publicId} ELSE cloud,
      result |-> IF fails THEN "error" ELSE "ok",
      threw |-> fails ]

\* deleteFromCloudinary: uploader.destroy removes the object of that public id
\* and resource type; an error of the call (fails) is caught and logged.
DeleteFromCloudinary(publicId, resourceType, fails) ==
    [ cloud |->
        IF ~fails /\ publicId \in cloud
           /\ uploads[publicId].resource_type = resourceType
        THEN cloud \ {publicId} ELSE cloud,
      result |-> IF fails THEN "error" ELSE "ok",
      threw |-> FALSE ]

\* The error-handling middleware's status: error.status || 500.
ErrorStatus(error) == IF error.status # 0 THEN error.status ELSE 500

\* A schema without required paths.
Validate_None(c, doc) == TRUE

\* Mongoose's required validators: every text path and every file path is set.
Validate(c, doc) ==
    /\ \A f \in TextFields(c) : Truthy(doc.text[f])
    /\ doc.fileUrl # None /\ doc.fileType # None /\ doc.publicId # 0

\* An update that never takes the value sent.
OrElse_Kept(given, kept) == kept

\* title || content.title
OrElse(given, kept) == IF Truthy(given) THEN given ELSE kept

\* The document a POST handler constructs (the schema defaults set the dates).
NewDoc(c, body, file, t) ==
    [ text |-> [f \in TextFields(c) |-> body[f]],
      fileUrl |-> file.path,
      fileType |-> file.mimetype,
      publicId |-> file.filename,
      createdAt |-> t,
      updatedAt |-> t ]

\* The text assignments of a PUT handler, and updatedAt = Date.now().
Assign(c, doc, body, t) ==
    [ doc EXCEPT
        !.text = [f \in TextFields(c) |->
                    IF f \in UpdateFields(c) THEN OrElse(body[f], doc.text[f])
                    ELSE doc.text[f]],
        !.updatedAt = t ]

\* The delete issued after the file assignments: it names the new file.
OldFile_New(doc, file) == <<file.filename, GetResourceType(file.mimetype)>>

\* The arguments of a PUT handler's deleteFromCloudinary call.
OldFile(doc, file) == <<doc.publicId, GetResourceType(doc.fileType)>>

\* The file assignments of a PUT handler.
Replace(doc, file) ==
    [ doc EXCEPT !.fileUrl = file.path, !.fileType = file.mimetype,
                 !.publicId = file.filename ]

\* save() of a found document writes the paths whose value was changed.
Saved(stored, found, doc) ==
    [ text |-> [f \in DOMAIN doc.text |->
                  IF doc.text[f] # found.text[f] THEN doc.text[f] ELSE stored.text[f]],
      fileUrl |-> IF doc.fileUrl # found.fileUrl THEN doc.fileUrl ELSE stored.fileUrl,
      fileType |-> IF doc.fileType # found.fileType THEN doc.fileType ELSE stored.fileType,
      publicId |-> IF doc.publicId # found.publicId THEN doc.publicId ELSE stored.publicId,
      createdAt |-> IF doc.createdAt # found.createdAt THEN doc.createdAt ELSE stored.createdAt,
      updatedAt |-> IF doc.updatedAt # found.updatedAt THEN doc.updatedAt ELSE stored.updatedAt ]

\* Model.findById
FindById(c, id) == IF id \in DOMAIN store[c] THEN store[c][id] ELSE None

\* GET /api/content/item/:id, GET /api/projects/:id
GetById(c, id) ==
    LET found == FindById(c, id)
    IN  IF id = BadId THEN [status |-> 500, json |-> None]
        ELSE IF found = None THEN [status |-> 404, json |-> None]
        ELSE [status |-> 200, json |-> found]

NotFound(c) == IF c = "content" THEN "Content not found" ELSE "Project not found"
Deleted(c) ==
    IF c = "content" THEN "Content deleted successfully"
    ELSE "Project deleted successfully"

(* ------------------------------------------------------------ the state *)

Idle ==
    [ pc |-> "idle", method |-> "POST", coll |-> "content", password |-> Undef,
      id |-> BadId, body |-> NoBody("content"), sent |-> None, file |-> None,
      found |-> None, doc |-> None,
      status |-> 0, error |-> "", message |-> "", json |-> None,
      fx |-> << >> ]

Init ==
    /\ adminSecret \in Secrets
    /\ store = [c \in Colls |-> << >>]
    /\ nextId = 1
    /\ uploads = << >>
    /\ cloud = {}
    /\ now = 0
    /\ req = [r \in Reqs |-> Idle]

\* res.status(status).json({error}) and the end of the request.
Fail(r, status, error) ==
    req' = [req EXCEPT ![r].pc = "done", ![r].status = status, ![r].error = error]

(* ---------------------------------------------------------- the actions *)

\* A request reaches one of the six protected routes and authenticate runs:
\* the handler chain goes on, or the request ends 401.
Request(r) ==
    /\ req[r].pc \in {"idle", "done"}
    /\ \E m \in Methods, c \in Colls, p \in Headers, i \in IdParams :
         /\ m = "POST" => i = BadId
         /\ LET q == [Idle EXCEPT !.method = m, !.coll = c, !.password = p, !.id = i,
                                  !.body = NoBody(c)]
            IN  req' = [req EXCEPT ![r] =
                    IF Authenticate(p)
                    THEN [q EXCEPT !.pc = IF m = "DELETE" THEN "deleteFind" ELSE "upload"]
                    ELSE [q EXCEPT !.pc = "done", !.status = 401,
                                   !.error = "Unauthorized"]]
    /\ UNCHANGED <<adminSecret, store, nextId, uploads, cloud, now>>

\* upload.single('file'): multer parses the form, fileFilter judges the file
\* part and the Cloudinary storage uploads it.  An error goes to the
\* error-handling middleware.
Upload(r) ==
    /\ req[r].pc = "upload"
    /\ \E sent \in SentTypes \cup {None}, stored \in BOOLEAN, cat \in CategoriesOf(req[r].coll) :
         LET body == [req[r].body EXCEPT !["category"] = cat]
             next == IF req[r].method = "POST" THEN "post" ELSE "putFind"
             n == Len(uploads) + 1
             params == StorageParams(BaseUrl(req[r].coll), body, sent)
             q == [req[r] EXCEPT !.sent = sent]
         IN  IF sent = None
             THEN /\ stored /\ cat = Undef
                  /\ req' = [req EXCEPT ![r] = [q EXCEPT !.pc = next]]
                  /\ UNCHANGED <<uploads, cloud>>
             ELSE IF ~FileFilter(sent)
             THEN /\ stored /\ cat = Undef
                  /\ req' = [req EXCEPT ![r] =
                        [q EXCEPT !.pc = "done",
                                  !.status = ErrorStatus([message |-> "Invalid file type", status |-> 0]),
                                  !.error = "Invalid file type"]]
                  /\ UNCHANGED <<uploads, cloud>>
             ELSE IF ~stored
             THEN /\ cat = Undef
                  /\ req' = [req EXCEPT ![r] =
                        [q EXCEPT !.pc = "done",
                                  !.status = ErrorStatus([message |-> "Upload failed", status |-> 0]),
                                  !.error = "Upload failed"]]
                  /\ UNCHANGED <<uploads, cloud>>
             ELSE /\ n <= MaxUploads
                  /\ uploads' = Append(uploads, [resource_type |-> params.resource_type])
                  /\ cloud' = cloud \cup {n}
                  /\ req' = [req EXCEPT ![r] =
                        [q EXCEPT !.pc = next, !.body = body,
                                  !.file = [path |-> [url |-> n], filename |-> n, mimetype |-> sent],
                                  !.fx = Append(@, [op |-> "upload", publicId |-> n,
                                                    folder |-> params.folder,
                                                    resource_type |-> params.resource_type])]]
    /\ UNCHANGED <<adminSecret, store, nextId, now>>

\* POST /api/content, POST /api/projects
Post(r) ==
    /\ req[r].pc = "post"
    /\ \E t \in now..MaxClock, text \in TextBodies(UpdateFields(req[r].coll), Pivots(req[r].coll)) :
       LET c == req[r].coll
           body == WithText(c, req[r].body, text)
           doc == NewDoc(c, body, req[r].file, t)
       IN  IF req[r].file = None
           THEN /\ Fail(r, 400, "No file uploaded")
                /\ UNCHANGED <<store, nextId, now>>
           ELSE IF ~Validate(c, doc)
           THEN /\ req' = [req EXCEPT ![r].pc = "done", ![r].status = 500,
                                      ![r].error = "validation failed", ![r].body = body]
                /\ now' = t
                /\ UNCHANGED <<store, nextId>>
           ELSE /\ nextId <= MaxRecords
                /\ now' = t
                /\ store' = [store EXCEPT ![c] = @ @@ (nextId :> doc)]
                /\ nextId' = nextId + 1
                /\ req' = [req EXCEPT ![r].pc = "done", ![r].status = 201,
                                      ![r].body = body, ![r].id = nextId, ![r].json = doc,
                                      ![r].fx = Append(@, [op |-> "insert", id |-> nextId])]
    /\ UNCHANGED <<adminSecret, uploads, cloud>>

\* PUT /api/content/:id, PUT /api/projects/:id: findById, then the text
\* assignments, up to the handler's next await.
PutFind(r) ==
    /\ req[r].pc = "putFind"
    /\ \E t \in now..MaxClock, text \in TextBodies(UpdateFields(req[r].coll), Pivots(req[r].coll)) :
       LET c == req[r].coll
           body == WithText(c, req[r].body, text)
           found == FindById(c, req[r].id)
       IN  IF req[r].id = BadId
           THEN Fail(r, 500, "Cast to ObjectId failed") /\ UNCHANGED now
           ELSE IF found = None
           THEN Fail(r, 404, NotFound(c)) /\ UNCHANGED now
           ELSE /\ now' = t
                /\ req' = [req EXCEPT ![r].found = found, ![r].body = body,
                                      ![r].doc = Assign(c, found, body, t),
                                      ![r].pc = IF req[r].file # None THEN "putDestroy"
                                                ELSE "putSave"]
    /\ UNCHANGED <<adminSecret, store, nextId, uploads, cloud>>

\* PUT with a file: await deleteFromCloudinary(...), then the file assignments.
PutDestroy(r) ==
    /\ req[r].pc = "putDestroy"
    /\ \E fails \in BOOLEAN :
         LET old == OldFile(req[r].doc, req[r].file)
             out == DeleteFromCloudinary(old[1], old[2], fails)
             fx == Append(req[r].fx, [op |-> "destroy", publicId |-> old[1],
                                      resource_type |-> old[2], result |-> out.result])
         IN  /\ cloud' = out.cloud
             /\ IF out.threw
                THEN req' = [req EXCEPT ![r].pc = "done", ![r].status = 500,
                                        ![r].error = "destroy failed", ![r].fx = fx]
                ELSE req' = [req EXCEPT ![r].pc = "putSave", ![r].fx = fx,
                                        ![r].doc = Replace(@, req[r].file)]
    /\ UNCHANGED <<adminSecret, store, nextId, uploads, now>>

\* PUT: await content.save(), then res.json(content).  A save that finds no
\* document to update throws or passes, with the Mongoose version.
PutSave(r) ==
    /\ req[r].pc = "putSave"
    /\ LET c == req[r].coll
           id == req[r].id
           doc == req[r].doc
       IN  IF ~Validate(c, doc)
           THEN /\ Fail(r, 500, "validation failed")
                /\ UNCHANGED store
           ELSE IF id \in DOMAIN store[c]
           THEN /\ store' = [store EXCEPT ![c][id] = Saved(@, req[r].found, doc)]
                /\ req' = [req EXCEPT ![r].pc = "done", ![r].status = 200, ![r].json = doc,
                                      ![r].fx = Append(@, [op |-> "save", id |-> id])]
           ELSE /\ UNCHANGED store
                /\ \E throws \in BOOLEAN :
                     IF throws THEN Fail(r, 500, "No document found")
                     ELSE req' = [req EXCEPT ![r].pc = "done", ![r].status = 200,
                                             ![r].json = doc]
    /\ UNCHANGED <<adminSecret, nextId, uploads, cloud, now>>

\* DELETE /api/content/:id, DELETE /api/projects/:id: findById.
DeleteFind(r) ==
    /\ req[r].pc = "deleteFind"
    /\ LET c == req[r].coll
           found == FindById(c, req[r].id)
       IN  IF req[r].id = BadId
           THEN Fail(r, 500, "Cast to ObjectId failed")
           ELSE IF found = None
           THEN Fail(r, 404, NotFound(c))
           ELSE req' = [req EXCEPT ![r].found = found, ![r].doc = found,
                                   ![r].pc = "deleteDestroy"]
    /\ UNCHANGED <<adminSecret, store, nextId, uploads, cloud, now>>

\* DELETE: await deleteFromCloudinary(...).
DeleteDestroy(r) ==
    /\ req[r].pc = "deleteDestroy"
    /\ \E fails \in BOOLEAN :
         LET old == <<req[r].doc.publicId, GetResourceType(req[r].doc.fileType)>>
             out == DeleteFromCloudinary(old[1], old[2], fails)
             fx == Append(req[r].fx, [op |-> "destroy", publicId |-> old[1],
                                      resource_type |-> old[2], result |-> out.result])
         IN  /\ cloud' = out.cloud
             /\ IF out.threw
                THEN req' = [req EXCEPT ![r].pc = "done", ![r].status = 500,
                                        ![r].error = "destroy failed", ![r].fx = fx]
                ELSE req' = [req EXCEPT ![r].pc = "deleteRemove", ![r].fx = fx]
    /\ UNCHANGED <<adminSecret, store, nextId, uploads, now>>

\* DELETE: await Model.findByIdAndDelete(id), then the 200 response.
DeleteRemove(r) ==
    /\ req[r].pc = "deleteRemove"
    /\ LET c == req[r].coll
           id == req[r].id
       IN  /\ store' = [store EXCEPT ![c] = [i \in DOMAIN @ \ {id} |-> @[i]]]
           /\ req' = [req EXCEPT ![r].pc = "done", ![r].status = 200,
                                 ![r].message = Deleted(c),
                                 ![r].fx = IF id \in DOMAIN store[c]
                                           THEN Append(@, [op |-> "remove", id |-> id])
                                           ELSE @]
    /\ UNCHANGED <<adminSecret, nextId, uploads, cloud, now>>

Next ==
    \/ \E r \in Reqs : Request(r)
    \/ \E r \in Reqs : Upload(r)
    \/ \E r \in Reqs : Post(r)
    \/ \E r \in Reqs : PutFind(r)
    \/ \E r \in Reqs : PutDestroy(r)
    \/ \E r \in Reqs : PutSave(r)
    \/ \E r \in Reqs : DeleteFind(r)
    \/ \E r \in Reqs : DeleteDestroy(r)
    \/ \E r \in Reqs : DeleteRemove(r)

Spec == Init /\ [][Next]_vars

(* ----------------------------------------------------------- the claims *)

\* What request r did to the remote store and to the record store, in order.
Effects(r, ops) == SelectSeq(req[r].fx, LAMBDA e : e.op \in ops)
Remote == {"upload", "destroy"}
Record == {"insert", "save", "remove"}

Answered(r) == req[r].pc = "done"
Sent(r) == req[r].pc # "idle"
\* The request passed the gate.
Credentialed(r) == req[r].password = adminSecret
\* The deployment sets ADMIN_PASSWORD, and the request carries it.
Configured == adminSecret # Undef
Authorized(r) == Configured /\ req[r].password = adminSecret
IsError(status) == status \in {400, 404, 500}

\* The resource kind of a MIME type, as the specification words it.
KindOf(mimetype) ==
    CASE mimetype.type = "video" -> "video"
      [] mimetype.type = "image" -> "image"
      [] OTHER -> "raw"

\* The folder the specification gives an upload.
FolderOf(c, category) ==
    CASE c = "project" -> "portfolio/projects"
      [] c = "content" /\ category = "curriculum" -> "portfolio/curriculum"
      [] c = "content" /\ category = "hobbies" -> "portfolio/hobbies"
      [] OTHER -> "portfolio"

AllGiven(c, body) == \A f \in TextFields(c) : body[f] \notin {Undef, ""}

\* C1: on each of the six protected routes a request whose x-admin-password
\* differs from the admin secret is answered 401 {error: 'Unauthorized'} at
\* once and does nothing: no upload, no remote delete, no record created,
\* changed or removed.
C1_MismatchIsRejectedWithoutEffect ==
    \A r \in Reqs :
        (Sent(r) /\ req[r].password # adminSecret) =>
            /\ Answered(r)
            /\ req[r].status = 401
            /\ req[r].error = "Unauthorized"
            /\ req[r].fx = << >>
            /\ req[r].file = None /\ req[r].found = None /\ req[r].json = None

\* A wrong password on a DELETE and on a PUT of a record that exists.
C1_Witness ==
    \E r \in Reqs :
        /\ Answered(r) /\ req[r].status = 401
        /\ adminSecret = Secret /\ req[r].password = "guess"
        /\ req[r].method \in {"PUT", "DELETE"}
        /\ req[r].id \in DOMAIN store[req[r].coll]

\* C2: the gate fails closed whatever the admin secret is, unset included: a
\* request without the x-admin-password header is answered Unauthorized and
\* nothing of the mutating operation is attempted.
C2_MissingCredentialIsRejected ==
    \A r \in Reqs :
        (Sent(r) /\ req[r].password = Undef) =>
            /\ Answered(r)
            /\ req[r].status = 401
            /\ req[r].fx = << >>

\* C3 as claimed: an authorized create whose file was stored returns 201 with
\* the stored file's url, public id and MIME type; one without a file returns
\* 400 'No file uploaded' and persists nothing; no record without a stored file.
C3_StoredFileGives201 ==
    \A r \in Reqs :
        (Answered(r) /\ Authorized(r) /\ req[r].method = "POST") =>
            /\ req[r].file # None =>
                  /\ req[r].status = 201
                  /\ req[r].json.fileUrl = req[r].file.path
                  /\ req[r].json.publicId = req[r].file.filename
                  /\ req[r].json.fileType = req[r].file.mimetype
            /\ req[r].sent = None =>
                  /\ req[r].status = 400 /\ req[r].error = "No file uploaded"
                  /\ Effects(r, Record) = << >>
            /\ Effects(r, Record) # << >> => req[r].file # None

\* C3 as amended: the 201 needs, besides the stored file, every required text
\* field; with one missing or empty the create returns 500 and persists nothing.
C3_StoredFileAndFieldsGive201 ==
    \A r \in Reqs :
        (Answered(r) /\ Credentialed(r) /\ req[r].method = "POST") =>
            LET c == req[r].coll IN
            /\ (req[r].file # None /\ AllGiven(c, req[r].body)) =>
                  /\ req[r].status = 201
                  /\ req[r].json.fileUrl = req[r].file.path
                  /\ req[r].json.publicId = req[r].file.filename
                  /\ req[r].json.fileType = req[r].file.mimetype
                  /\ req[r].file.filename \in cloud
                  /\ req[r].file.mimetype = req[r].sent
                  /\ GetById(c, req[r].id) = [status |-> 200, json |-> req[r].json]
                  /\ Effects(r, Record) = << [op |-> "insert", id |-> req[r].id] >>
            /\ (req[r].file # None /\ ~AllGiven(c, req[r].body)) =>
                  /\ req[r].status = 500
                  /\ Effects(r, Record) = << >>
            /\ req[r].sent = None =>
                  /\ req[r].status = 400 /\ req[r].error = "No file uploaded"
                  /\ Effects(r, Record) = << >>
            /\ Effects(r, Record) # << >> => req[r].file # None

\* A create answered 201, its record naming an object of the remote store.
C3_Witness ==
    /\ \E r \in Reqs :
          /\ Answered(r) /\ req[r].method = "POST" /\ req[r].status = 201
          /\ req[r].json.publicId \in cloud
    /\ nextId > 1

\* C4: an authorized PUT of an existing record with a file calls the remote
\* delete exactly once, before the save, with the public id the record had and
\* the kind of the record's previous fileType; whether or not that delete
\* fails, the record is saved with the new file's url, MIME type and public id.
C4_ReplaceDeletesOldFileOnce ==
    \A r \in Reqs :
        (req[r].method = "PUT" /\ req[r].file # None /\ req[r].found # None
         /\ req[r].pc \in {"putSave", "done"}) =>
            LET c == req[r].coll
                old == req[r].found
                calls == Effects(r, {"destroy"})
            IN  /\ Len(calls) = 1
                /\ calls[1].publicId = old.publicId
                /\ calls[1].resource_type = KindOf(old.fileType)
                /\ req[r].pc = "putSave" => Effects(r, Record) = << >>
                /\ req[r].pc = "done" =>
                      /\ req[r].status = 200
                      /\ Effects(r, {"destroy", "save"}) =
                            << calls[1], [op |-> "save", id |-> req[r].id] >>
                      /\ req[r].json.fileUrl = req[r].file.path
                      /\ req[r].json.fileType = req[r].file.mimetype
                      /\ req[r].json.publicId = req[r].file.filename
                      /\ GetById(c, req[r].id) = [status |-> 200, json |-> req[r].json]

\* A replaced file of another kind than the old one, the remote delete failing.
C4_Witness ==
    \E r \in Reqs :
        /\ Answered(r) /\ req[r].method = "PUT" /\ req[r].status = 200
        /\ req[r].file # None /\ req[r].found # None
        /\ KindOf(req[r].found.fileType) # KindOf(req[r].file.mimetype)
        /\ Effects(r, {"destroy"})[1].result = "error"

C6_DeleteRemovesTheRecord ==
    \A r \in Reqs :
        (Answered(r) /\ req[r].method = "DELETE" /\ req[r].found # None) =>
            /\ req[r].status = 200
            /\ req[r].message = (IF req[r].coll = "content"
                                 THEN "Content deleted successfully"
                                 ELSE "Project deleted successfully")
            /\ GetById(req[r].coll, req[r].id).status = 404
            /\ Len(Effects(r, {"destroy"})) = 1
            /\ Effects(r, Record) = << [op |-> "remove", id |-> req[r].id] >>

\* A delete answered 200 after the remote delete threw.
C6_Witness ==
    \E r \in Reqs :
        /\ Answered(r) /\ req[r].method = "DELETE" /\ req[r].status = 200
        /\ Effects(r, {"destroy"})[1].result = "error"
        /\ req[r].found.publicId \in cloud

\* C7: a create or update whose file is of a type outside the allowed set is
\* answered with a 400-class status, with no call to the remote store and no
\* record created or changed.
C7_BadTypeIsA400 ==
    \A r \in Reqs :
        (Answered(r) /\ Authorized(r) /\ req[r].sent # None
         /\ req[r].sent \notin AllowedTypes) =>
            /\ req[r].status \in 400..499
            /\ req[r].fx = << >>

\* C8: an upload of a Project route goes to the projects folder; an upload of
\* a Content route to the curriculum or hobbies folder when the category is
\* exactly that, and to the generic folder otherwise.
C8_FolderFollowsTheRoute ==
    Configured => \A r \in Reqs :
        \A i \in 1..Len(req[r].fx) :
            req[r].fx[i].op = "upload" =>
                req[r].fx[i].folder = FolderOf(req[r].coll, req[r].body["category"])

\* C9: in every state, between the steps of a request too, the object a
\* persisted record names by its publicId exists in the remote store.
C9_EveryRecordHasItsRemoteFile ==
    Configured => \A c \in Colls : \A id \in DOMAIN store[c] : store[c][id].publicId \in cloud

\* C10 as claimed: an authorized create or update answered 400, 404 or 500
\* added nothing to the remote store and removed nothing from it.
C10_ErrorLeavesRemoteStore ==
    \A r \in Reqs :
        (Answered(r) /\ Authorized(r) /\ req[r].method \in {"POST", "PUT"}
         /\ IsError(req[r].status)) =>
            Effects(r, Remote) = << >>

\* C10 as amended: that holds when no file of the request was stored (no file
\* part, a refused type, a failed upload; a 400 is always such).  When the file
\* was stored before the error, the uploaded object stays in the remote store,
\* named by no record, and the request wrote no record.
C10_ErrorAfterUploadLeavesOrphan ==
    \A r \in Reqs :
        (Answered(r) /\ Credentialed(r) /\ req[r].method \in {"POST", "PUT"}
         /\ IsError(req[r].status)) =>
            /\ req[r].file = None => req[r].fx = << >>
            /\ (req[r].sent = None \/ req[r].sent \notin AllowedTypes) => req[r].file = None
            /\ req[r].status = 400 => req[r].file = None
            /\ req[r].file # None =>
                  /\ Head(req[r].fx).op = "upload"
                  /\ Head(req[r].fx).publicId = req[r].file.filename
                  /\ Len(Effects(r, {"upload"})) = 1
                  /\ req[r].file.filename \in cloud
                  /\ \A c \in Colls : \A id \in DOMAIN store[c] :
                        store[c][id].publicId # req[r].file.filename
                  /\ Effects(r, Record) = << >>

\* A 404 for an unknown id after the file of the PUT was stored.
C10_Witness ==
    \E r \in Reqs :
        /\ Answered(r) /\ req[r].method = "PUT" /\ req[r].status = 404
        /\ req[r].file # None /\ req[r].file.filename \in cloud

====
